---- MODULE Spec2Model ----
(***************************************************************************)
(* The failure-resilience toolkit of the repository:                       *)
(*   - CircuitBreaker           (src/11_error_handling.py)                 *)
(*   - retry_decorator          (src/20_decorators_context.py)             *)
(*   - retry_with_backoff       (src/11_error_handling.py)                 *)
(*   - batch_health_checks      (src/15_async_operations.py, asyncio and   *)
(*                               src/8_network_operations.py, threads)     *)
(* Each component has its own specification (SpecCB, SpecRetry, SpecBatch) *)
(* over its own variables; the other components' variables stay at their   *)
(* initial values.                                                         *)
(***************************************************************************)
EXTENDS Integers, Sequences, FiniteSets, TLC

(* ------------------------------ bounds -------------------------------- *)
MaxThreshold == 3      \* failure_threshold is drawn from 1..MaxThreshold
MaxTimeout == 1        \* timeout is drawn from 0..MaxTimeout
MaxTime == 4           \* the clock time.time() runs over 0..MaxTime
MaxCalls == 5          \* calls of CircuitBreaker.call that are started
MaxAttempts == 4       \* max_attempts is drawn from 0..MaxAttempts
MaxDelay == 2          \* delay is drawn from 1..MaxDelay
MaxBackoff == 2        \* backoff and backoff_factor are drawn from 1..MaxBackoff
MaxTargets == 3        \* batch_health_checks gets up to MaxTargets targets
MaxRecords == 6        \* record_error calls on one ErrorAggregator
MaxAggTime == 2        \* the aggregator's clock runs over 0..MaxAggTime
MaxWindow == 1         \* time_window is drawn from 1..MaxWindow
MaxConcRecords == 4    \* record_error calls on an aggregator shared by threads
MaxRate == 2           \* rate_limit is drawn from 1..MaxRate
MaxWorkers == 2        \* max_workers is drawn from 1..MaxWorkers
MaxTasks == 3          \* add_task calls on one AsyncTaskQueue

(* last_failure_time = None *)
NoneTime == -1

Threads == {1, 2}      \* callers of one breaker; the sequential ones below
SeqThreads == {1}

(* ------------------------------ errors -------------------------------- *)
(* An exception is its class and its message.                             *)
Err(type, message) == [type |-> type, message |-> message]
NoError == Err("", "")

(* raise Exception("Service is down"); raise ConnectionError("API ...")   *)
ServiceDown == Err("Exception", "Service is down")
ApiUnavailable == Err("ConnectionError", "API temporarily unavailable")
OpErrors == {ServiceDown, ApiUnavailable}

(* raise Exception("Circuit breaker is OPEN - service unavailable")       *)
CircuitOpenRaised == Err("Exception", "Circuit breaker is OPEN - service unavailable")

(* time.time() - None *)
NoneTypeError == Err("TypeError", "unsupported operand type(s) for -: 'float' and 'NoneType'")

VARIABLES
  \* CircuitBreaker fields
  failure_threshold, timeout, failure_count, last_failure_time, state,
  \* the clock, and each caller's position in call()
  now, pc, loaded, pending,
  \* observations of the calls made so far
  ncalls, invocations, outcome, tally, callStart, raisedAt

cbVars == <<failure_threshold, timeout, failure_count, last_failure_time, state,
            now, pc, loaded, pending,
            ncalls, invocations, outcome, tally, callStart, raisedAt>>

VARIABLES
  \* which retry wrapper runs, and its decorator arguments
  wrapper, max_attempts, delay, backoff, exceptions, max_retries, backoff_factor,
  \* the wrapped function: what its i-th invocation (from 0) does
  script,
  \* the wrapper's locals and position
  attempt, last_exception, rpc,
  \* observations: invocations of func, the time.sleep arguments, the result
  calls, sleeps, rresult

retryVars == <<wrapper, max_attempts, delay, backoff, exceptions, max_retries,
               backoff_factor, script, attempt, last_exception, rpc,
               calls, sleeps, rresult>>

VARIABLES
  \* which batch_health_checks runs, and its argument (urls / endpoints)
  batch, targets,
  \* the aggregate call's position, and each check: "none", "pending" or
  \* how it ended
  bpc, check,
  \* asyncio version: the list returned; thread version: the dict returned
  \* (in insertion order) and the futures as_completed has yielded, as a
  \* set and in the order of the yields
  processed_results, results, yielded, yield_order

batchVars == <<batch, targets, bpc, check, processed_results, results, yielded,
               yield_order>>

VARIABLES
  \* ErrorAggregator fields: the list of records and the dict of counts
  \* (in insertion order)
  errors, error_counts,
  \* the clock, each caller's position in record_error, the type it is
  \* recording and the count it read
  atime, apc, akind, aloaded,
  \* the output of the last get_error_summary since the last record_error
  summary

aggVars == <<errors, error_counts, atime, apc, akind, aloaded, summary>>

VARIABLES
  \* rate_limited_api_calls: its arguments, the semaphore's value, each
  \* limited_request's position and result dict, the position of the
  \* function itself and the list it returns
  urls, rate_limit, semaphore, lpc, lresults, rlpc, api_results

rateVars == <<urls, rate_limit, semaphore, lpc, lresults, rlpc, api_results>>

VARIABLES
  \* AsyncTaskQueue fields: the asyncio.Queue (its items and its count of
  \* unfinished tasks), max_workers, running
  queue, unfinished_tasks, max_workers, running,
  \* each worker's position and the coroutine it holds; the caller's
  \* position; the coroutines added so far, and for each the workers that
  \* awaited it
  wpc, wtask, mpc, added, awaited_by

queueVars == <<queue, unfinished_tasks, max_workers, running,
               wpc, wtask, mpc, added, awaited_by>>

vars == <<cbVars, retryVars, batchVars, aggVars, rateVars, queueVars>>

(* ========================== CircuitBreaker ============================ *)

(* what a finished call gave its caller: kind is "none", "return" or      *)
(* "raise"; invoked tells whether func ran; during is the breaker's state *)
(* while func ran                                                         *)
Outcome(kind, invoked, err, during) ==
  [kind |-> kind, invoked |-> invoked, err |-> err, during |-> during]
NoOutcome == Outcome("none", FALSE, NoError, "")

CBInit ==
  /\ failure_threshold \in 1..MaxThreshold
  /\ timeout \in 0..MaxTimeout
  /\ failure_count = 0
  /\ last_failure_time = NoneTime
  /\ state = "CLOSED"
  /\ now = 0
  /\ pc = [t \in Threads |-> "idle"]
  /\ loaded = [t \in Threads |-> 0]
  /\ pending = [t \in Threads |-> NoError]
  /\ ncalls = 0
  /\ invocations = 0
  /\ outcome = [t \in Threads |-> NoOutcome]
  /\ tally = [ok |-> 0, fail |-> 0, rejected |-> 0]
  /\ callStart = [t \in Threads |-> 0]
  /\ raisedAt = [t \in Threads |-> NoneTime]

(* no breaker is in use *)
CBIdle ==
  /\ failure_threshold = 5 /\ timeout = 60
  /\ failure_count = 0 /\ last_failure_time = NoneTime /\ state = "CLOSED"
  /\ now = 0
  /\ pc = [t \in Threads |-> "idle"]
  /\ loaded = [t \in Threads |-> 0]
  /\ pending = [t \in Threads |-> NoError]
  /\ ncalls = 0 /\ invocations = 0
  /\ outcome = [t \in Threads |-> NoOutcome]
  /\ tally = [ok |-> 0, fail |-> 0, rejected |-> 0]
  /\ callStart = [t \in Threads |-> 0]
  /\ raisedAt = [t \in Threads |-> NoneTime]

(* time.time() - self.last_failure_time > self.timeout *)
TimeoutElapsedGE(cur, last, to) == cur - last >= to
TimeoutElapsed(cur, last, to) == cur - last > to

(* self.failure_count >= self.failure_threshold *)
ThresholdReachedGT(count, threshold) == count > threshold
ThresholdReached(count, threshold) == count >= threshold

(* lines 68-77: the OPEN check, then func is entered *)
CallEnter(t) ==
  /\ pc[t] = "idle"
  /\ ncalls < MaxCalls
  /\ ncalls' = ncalls + 1
  /\ callStart' = [callStart EXCEPT ![t] = now]
  /\ IF state = "OPEN" /\ last_failure_time = NoneTime
       THEN /\ outcome' = [outcome EXCEPT ![t] = Outcome("raise", FALSE, NoneTypeError, "")]
            /\ tally' = [tally EXCEPT !.rejected = @ + 1]
            /\ UNCHANGED <<state, pc, invocations>>
       ELSE IF state = "OPEN" /\ ~TimeoutElapsed(now, last_failure_time, timeout)
       THEN /\ outcome' = [outcome EXCEPT ![t] = Outcome("raise", FALSE, CircuitOpenRaised, "")]
            /\ tally' = [tally EXCEPT !.rejected = @ + 1]
            /\ UNCHANGED <<state, pc, invocations>>
       ELSE /\ state' = IF state = "OPEN" THEN "HALF_OPEN" ELSE state
            /\ pc' = [pc EXCEPT ![t] = "in_func"]
            /\ invocations' = invocations + 1
            /\ outcome' = [outcome EXCEPT ![t] = Outcome("none", TRUE, NoError, state')]
            /\ UNCHANGED tally
  /\ UNCHANGED <<failure_threshold, timeout, failure_count, last_failure_time,
                 now, loaded, pending, raisedAt>>
  /\ UNCHANGED <<retryVars, batchVars, aggVars, rateVars, queueVars>>

(* lines 77-85: func returned *)
StateAfterSuccessKeep(s) == s
StateAfterSuccess(s) == IF s = "HALF_OPEN" THEN "CLOSED" ELSE s
CountAfterSuccessKeep(s, count) == count
CountAfterSuccessReset(s, count) == 0
CountAfterSuccess(s, count) == IF s = "HALF_OPEN" THEN 0 ELSE count

FuncReturn(t) ==
  /\ pc[t] = "in_func"
  /\ state' = StateAfterSuccess(state)
  /\ failure_count' = CountAfterSuccess(state, failure_count)
  /\ pc' = [pc EXCEPT ![t] = "idle"]
  /\ outcome' = [outcome EXCEPT ![t] = Outcome("return", TRUE, NoError, @.during)]
  /\ tally' = [tally EXCEPT !.ok = @ + 1]
  /\ UNCHANGED <<failure_threshold, timeout, last_failure_time, now, loaded, pending,
                 ncalls, invocations, callStart, raisedAt>>
  /\ UNCHANGED <<retryVars, batchVars, aggVars, rateVars, queueVars>>

(* lines 87-88: func raised e; self.failure_count is read for the += 1 *)
FuncRaise(t, e) ==
  /\ pc[t] = "in_func"
  /\ pc' = [pc EXCEPT ![t] = "except"]
  /\ pending' = [pending EXCEPT ![t] = e]
  /\ loaded' = [loaded EXCEPT ![t] = failure_count]
  /\ UNCHANGED <<failure_threshold, timeout, failure_count, last_failure_time, state,
                 now, ncalls, invocations, outcome, tally, callStart, raisedAt>>
  /\ UNCHANGED <<retryVars, batchVars, aggVars, rateVars, queueVars>>

(* lines 88-96: the incremented count is stored, the failure time taken,  *)
(* the threshold checked, and e raised to the caller                      *)
FailureTime(t) == now

ExceptStore(t) ==
  /\ pc[t] = "except"
  /\ failure_count' = loaded[t] + 1
  /\ last_failure_time' = FailureTime(t)
  /\ state' = IF ThresholdReached(failure_count', failure_threshold) THEN "OPEN" ELSE state
  /\ pc' = [pc EXCEPT ![t] = "idle"]
  /\ outcome' = [outcome EXCEPT ![t] = Outcome("raise", TRUE, pending[t], @.during)]
  /\ tally' = [tally EXCEPT !.fail = @ + 1]
  /\ raisedAt' = [raisedAt EXCEPT ![t] = now]
  /\ UNCHANGED <<failure_threshold, timeout, now, loaded, pending,
                 ncalls, invocations, callStart>>
  /\ UNCHANGED <<retryVars, batchVars, aggVars, rateVars, queueVars>>

(* time passes *)
Tick ==
  /\ now < MaxTime
  /\ now' = now + 1
  /\ UNCHANGED <<failure_threshold, timeout, failure_count, last_failure_time, state,
                 pc, loaded, pending, ncalls, invocations, outcome, tally,
                 callStart, raisedAt>>
  /\ UNCHANGED <<retryVars, batchVars, aggVars, rateVars, queueVars>>

CBNext ==
  \/ \E t \in SeqThreads : CallEnter(t)
  \/ \E t \in SeqThreads : FuncReturn(t)
  \/ \E t \in SeqThreads : \E e \in OpErrors : FuncRaise(t, e)
  \/ \E t \in SeqThreads : ExceptStore(t)
  \/ Tick

(* call() entered by several threads on one breaker: the class holds no  *)
(* lock, so the steps of different callers interleave                     *)
CBConcNext ==
  \/ \E t \in Threads : CallEnter(t)
  \/ \E t \in Threads : FuncReturn(t)
  \/ \E t \in Threads : \E e \in OpErrors : FuncRaise(t, e)
  \/ \E t \in Threads : ExceptStore(t)
  \/ Tick

(* ================= retry_decorator, retry_with_backoff ================ *)

(* the classes an exception class derives from (itself included) *)
Ancestors(type) ==
  CASE type = "ConnectionError" -> {"ConnectionError", "OSError", "Exception", "BaseException"}
    [] type = "OSError" -> {"OSError", "Exception", "BaseException"}
    [] type = "ValueError" -> {"ValueError", "Exception", "BaseException"}
    [] type = "TypeError" -> {"TypeError", "Exception", "BaseException"}
    [] type = "Exception" -> {"Exception", "BaseException"}
    [] OTHER -> {type}

(* isinstance(e, classes) *)
IsInstance(e, classes) == Ancestors(e.type) \cap classes # {}

(* except exceptions as e: whether the clause catches e *)
CaughtAlways(e, classes) == TRUE
Caught(e, classes) == IsInstance(e, classes)

(* b ** a *)
RECURSIVE Pow(_, _)
Pow(b, a) == IF a <= 0 THEN 1 ELSE b * Pow(b, a - 1)

(* wait_time = delay * (backoff ** attempt) *)
WaitTimeNext(d, b, a) == d * Pow(b, a + 1)
WaitTime(d, b, a) == d * Pow(b, a)

(* if attempt == max_attempts - 1 *)
LastAttemptEarly(a, n) == a = n - 2
LastAttempt(a, n) == a = n - 1

(* delay = backoff_factor ** attempt *)
BackoffDelay(f, a) == Pow(f, a)

(* if attempt == max_retries *)
LastRetryEarly(a, n) == a = n - 1
LastRetry(a, n) == a = n

(* last_exception = None *)
None == Err("None", "")

(* raise None *)
RaiseNoneError == Err("TypeError", "exceptions must derive from BaseException")

(* what func can raise; NoError in a script is an invocation that returns *)
InvalidInput == Err("ValueError", "Invalid input")
ScriptErrors == {ApiUnavailable, InvalidInput}
Scripts == [0..(MaxAttempts - 1) -> {NoError} \cup ScriptErrors]

(* the exceptions tuples a caller may pass; (Exception,) is the default *)
ExceptionTuples == {{"Exception"}, {"OSError"}, {"ValueError"}}

(* the wrapper's result: kind is "none", "return" or "raise"; value is    *)
(* the index of the invocation of func whose value is returned            *)
Result(kind, value, err) == [kind |-> kind, value |-> value, err |-> err]
NoResult == Result("none", -1, NoError)

RetryLocals ==
  /\ attempt = 0 /\ last_exception = None /\ rpc = "loop"
  /\ calls = 0 /\ sleeps = <<>> /\ rresult = NoResult

RetryInit ==
  /\ script \in Scripts
  /\ \/ /\ wrapper = "retry_decorator"
        /\ max_attempts \in 0..MaxAttempts
        /\ delay \in 1..MaxDelay
        /\ backoff \in 1..MaxBackoff
        /\ exceptions \in ExceptionTuples
        /\ max_retries = 3 /\ backoff_factor = 2
     \/ /\ wrapper = "retry_with_backoff"
        /\ max_retries \in -1..(MaxAttempts - 1)
        /\ backoff_factor \in 1..MaxBackoff
        /\ max_attempts = 3 /\ delay = 1 /\ backoff = 2
        /\ exceptions = {"Exception"}
  /\ RetryLocals

(* no retry wrapper is in use *)
RetryIdle ==
  /\ wrapper = "none" /\ script = [i \in 0..(MaxAttempts - 1) |-> NoError]
  /\ max_attempts = 3 /\ delay = 1 /\ backoff = 2 /\ exceptions = {"Exception"}
  /\ max_retries = 3 /\ backoff_factor = 2
  /\ RetryLocals

RetryParamsUnchanged ==
  /\ UNCHANGED <<wrapper, max_attempts, delay, backoff, exceptions, max_retries,
                 backoff_factor, script>>
  /\ UNCHANGED <<cbVars, batchVars, aggVars, rateVars, queueVars>>

(* retry_decorator, lines 53-66: one pass of the loop body *)
RD_Try ==
  /\ wrapper = "retry_decorator" /\ rpc = "loop"
  /\ attempt < max_attempts
  /\ calls' = calls + 1
  /\ LET e == script[calls] IN
       IF e = NoError
         THEN /\ rresult' = Result("return", calls, NoError)
              /\ rpc' = "done"
              /\ UNCHANGED <<last_exception, sleeps>>
       ELSE IF Caught(e, exceptions)
         THEN /\ last_exception' = e
              /\ IF LastAttempt(attempt, max_attempts)
                   THEN /\ rresult' = Result("raise", -1, e)
                        /\ rpc' = "done"
                        /\ UNCHANGED sleeps
                   ELSE /\ sleeps' = Append(sleeps, WaitTime(delay, backoff, attempt))
                        /\ rpc' = "sleep"
                        /\ UNCHANGED rresult
         ELSE /\ rresult' = Result("raise", -1, e)
              /\ rpc' = "done"
              /\ UNCHANGED <<last_exception, sleeps>>
  /\ UNCHANGED attempt
  /\ RetryParamsUnchanged

(* retry_decorator, lines 66 and 53: time.sleep returns, the loop goes on *)
RD_SleepNoAdvance ==
  /\ wrapper = "retry_decorator" /\ rpc = "sleep"
  /\ attempt' = attempt
  /\ rpc' = "loop"
  /\ UNCHANGED <<last_exception, calls, sleeps, rresult>>
  /\ RetryParamsUnchanged
RD_Sleep ==
  /\ wrapper = "retry_decorator" /\ rpc = "sleep"
  /\ attempt' = attempt + 1
  /\ rpc' = "loop"
  /\ UNCHANGED <<last_exception, calls, sleeps, rresult>>
  /\ RetryParamsUnchanged

(* retry_decorator, line 68: the loop ran out; raise last_exception *)
RD_AfterLoop ==
  /\ wrapper = "retry_decorator" /\ rpc = "loop"
  /\ ~(attempt < max_attempts)
  /\ rresult' = Result("raise", -1,
                       IF last_exception = None THEN RaiseNoneError ELSE last_exception)
  /\ rpc' = "done"
  /\ UNCHANGED <<attempt, last_exception, calls, sleeps>>
  /\ RetryParamsUnchanged

(* retry_with_backoff, lines 30-43: one pass of the loop body *)
RB_Try ==
  /\ wrapper = "retry_with_backoff" /\ rpc = "loop"
  /\ attempt < max_retries + 1
  /\ calls' = calls + 1
  /\ LET e == script[calls] IN
       IF e = NoError
         THEN /\ rresult' = Result("return", calls, NoError)
              /\ rpc' = "done"
              /\ UNCHANGED <<last_exception, sleeps>>
       ELSE IF Caught(e, {"Exception"})
         THEN /\ last_exception' = e
              /\ IF LastRetry(attempt, max_retries)
                   THEN /\ rresult' = Result("raise", -1, e)
                        /\ rpc' = "done"
                        /\ UNCHANGED sleeps
                   ELSE /\ sleeps' = Append(sleeps, BackoffDelay(backoff_factor, attempt))
                        /\ rpc' = "sleep"
                        /\ UNCHANGED rresult
         ELSE /\ rresult' = Result("raise", -1, e)
              /\ rpc' = "done"
              /\ UNCHANGED <<last_exception, sleeps>>
  /\ UNCHANGED attempt
  /\ RetryParamsUnchanged

(* retry_with_backoff, lines 43 and 30: time.sleep returns *)
RB_Sleep ==
  /\ wrapper = "retry_with_backoff" /\ rpc = "sleep"
  /\ attempt' = attempt + 1
  /\ rpc' = "loop"
  /\ UNCHANGED <<last_exception, calls, sleeps, rresult>>
  /\ RetryParamsUnchanged

(* retry_with_backoff, line 45: the loop ran out; raise last_exception *)
RB_AfterLoop ==
  /\ wrapper = "retry_with_backoff" /\ rpc = "loop"
  /\ ~(attempt < max_retries + 1)
  /\ rresult' = Result("raise", -1,
                       IF last_exception = None THEN RaiseNoneError ELSE last_exception)
  /\ rpc' = "done"
  /\ UNCHANGED <<attempt, last_exception, calls, sleeps>>
  /\ RetryParamsUnchanged

RetryNext ==
  \/ RD_Try
  \/ RD_Sleep
  \/ RD_AfterLoop
  \/ RB_Try
  \/ RB_Sleep
  \/ RB_AfterLoop

(* ======================== batch_health_checks ========================= *)

Urls == {"http://localhost:8080/health", "http://localhost:9090/metrics"}

(* how one target's check can end: a 200 response, another status, an     *)
(* exception the check's own except clause turns into a dict, or an       *)
(* exception that leaves the check function                               *)
CheckOutcomes == {"healthy", "unhealthy", "failed", "escaped"}

(* the dict 'url' key is absent *)
NoUrl == ""

(* a result dict; task is the index of the check it came from *)
Entry(task, url, healthy, error) ==
  [task |-> task, url |-> url, healthy |-> healthy, error |-> error]

(* async_health_check's result, and line 54-60 of the asyncio version *)
AsyncEntryReversed(i) ==
  LET j == Len(targets) + 1 - i IN
  CASE check[j] = "healthy" -> Entry(j, targets[j], TRUE, FALSE)
    [] check[j] = "unhealthy" -> Entry(j, targets[j], FALSE, FALSE)
    [] check[j] = "failed" -> Entry(j, targets[j], FALSE, TRUE)
    [] OTHER -> Entry(j, NoUrl, FALSE, TRUE)
AsyncEntry(i) ==
  CASE check[i] = "healthy" -> Entry(i, targets[i], TRUE, FALSE)
    [] check[i] = "unhealthy" -> Entry(i, targets[i], FALSE, FALSE)
    [] check[i] = "failed" -> Entry(i, targets[i], FALSE, TRUE)
    [] OTHER -> Entry(i, NoUrl, FALSE, TRUE)

(* health_check_endpoint's result, and line 78-81 of the thread version *)
ThreadEntryOptimistic(i) ==
  CASE check[i] = "healthy" -> Entry(i, NoUrl, TRUE, FALSE)
    [] check[i] = "unhealthy" -> Entry(i, NoUrl, FALSE, FALSE)
    [] OTHER -> Entry(i, NoUrl, TRUE, TRUE)
ThreadEntry(i) ==
  CASE check[i] = "healthy" -> Entry(i, NoUrl, TRUE, FALSE)
    [] check[i] = "unhealthy" -> Entry(i, NoUrl, FALSE, FALSE)
    [] OTHER -> Entry(i, NoUrl, FALSE, TRUE)

(* d[k] = v on a dict kept as its items in insertion order *)
DictSetAppend(d, k, v) == Append(d, [key |-> k, val |-> v])
DictSet(d, k, v) ==
  IF \E n \in 1..Len(d) : d[n].key = k
    THEN [n \in 1..Len(d) |-> IF d[n].key = k THEN [key |-> k, val |-> v] ELSE d[n]]
    ELSE Append(d, [key |-> k, val |-> v])

BatchLocals ==
  /\ bpc = "start"
  /\ check = [i \in 1..Len(targets) |-> "none"]
  /\ processed_results = <<>> /\ results = <<>> /\ yielded = {}
  /\ yield_order = <<>>

TargetLists == UNION {[1..n -> Urls] : n \in 0..MaxTargets}

BatchInit ==
  /\ batch \in {"asyncio", "threads"}
  /\ targets \in TargetLists
  /\ BatchLocals

(* no batch call is in use *)
BatchIdle ==
  /\ batch = "none" /\ targets = <<>>
  /\ BatchLocals

BatchOthersUnchanged == UNCHANGED <<cbVars, retryVars, aggVars, rateVars, queueVars>>

(* asyncio, lines 44-49: a coroutine per url, all handed to gather *)
A_Gather ==
  /\ batch = "asyncio" /\ bpc = "start"
  /\ check' = [i \in 1..Len(targets) |-> "pending"]
  /\ bpc' = "waiting"
  /\ UNCHANGED <<batch, targets, processed_results, results, yielded, yield_order>>
  /\ BatchOthersUnchanged

(* asyncio, lines 14-37: one async_health_check ends *)
A_CheckDone(i, o) ==
  /\ batch = "asyncio" /\ bpc = "waiting"
  /\ check[i] = "pending"
  /\ check' = [check EXCEPT ![i] = o]
  /\ UNCHANGED <<batch, targets, bpc, processed_results, results, yielded, yield_order>>
  /\ BatchOthersUnchanged

(* asyncio, lines 49-62: gather returns once every check has ended; the   *)
(* results are processed in gather's order and returned                   *)
A_Return ==
  /\ batch = "asyncio" /\ bpc = "waiting"
  /\ \A i \in 1..Len(targets) : check[i] # "pending"
  /\ processed_results' = [i \in 1..Len(targets) |-> AsyncEntry(i)]
  /\ bpc' = "returned"
  /\ UNCHANGED <<batch, targets, check, results, yielded, yield_order>>
  /\ BatchOthersUnchanged

(* threads, lines 68-73: every check is submitted to the executor *)
T_Submit ==
  /\ batch = "threads" /\ bpc = "start"
  /\ check' = [i \in 1..Len(targets) |-> "pending"]
  /\ bpc' = "waiting"
  /\ UNCHANGED <<batch, targets, processed_results, results, yielded, yield_order>>
  /\ BatchOthersUnchanged

(* threads, lines 30-56: one health_check_endpoint ends in its worker *)
T_CheckDone(i, o) ==
  /\ batch = "threads" /\ bpc = "waiting"
  /\ check[i] = "pending"
  /\ check' = [check EXCEPT ![i] = o]
  /\ UNCHANGED <<batch, targets, bpc, processed_results, results, yielded, yield_order>>
  /\ BatchOthersUnchanged

(* threads, lines 76-81: as_completed yields a finished future; its       *)
(* result is stored under its url                                         *)
T_Collect(i) ==
  /\ batch = "threads" /\ bpc = "waiting"
  /\ check[i] \notin {"none", "pending"}
  /\ i \notin yielded
  /\ yielded' = yielded \cup {i}
  /\ yield_order' = Append(yield_order, i)
  /\ results' = DictSet(results, targets[i], ThreadEntry(i))
  /\ UNCHANGED <<batch, targets, bpc, check, processed_results>>
  /\ BatchOthersUnchanged

(* threads, lines 76-83: as_completed is exhausted, the executor shut down *)
T_ReturnInsideLoop ==
  /\ batch = "threads" /\ bpc = "waiting"
  /\ yielded # {} \/ Len(targets) = 0
  /\ bpc' = "returned"
  /\ UNCHANGED <<batch, targets, check, processed_results, results, yielded, yield_order>>
  /\ BatchOthersUnchanged
T_Return ==
  /\ batch = "threads" /\ bpc = "waiting"
  /\ yielded = 1..Len(targets)
  /\ bpc' = "returned"
  /\ UNCHANGED <<batch, targets, check, processed_results, results, yielded, yield_order>>
  /\ BatchOthersUnchanged

BatchNext ==
  \/ A_Gather
  \/ \E i \in 1..Len(targets) : \E o \in CheckOutcomes : A_CheckDone(i, o)
  \/ A_Return
  \/ T_Submit
  \/ \E i \in 1..Len(targets) : \E o \in CheckOutcomes : T_CheckDone(i, o)
  \/ \E i \in 1..Len(targets) : T_Collect(i)
  \/ T_Return

(* =========================== ErrorAggregator ========================== *)

(* type(error).__name__ of the errors recorded. The code compares type     *)
(* names only for equality, so the j-th distinct type an aggregator sees   *)
(* is named by the j-th of these.                                          *)
KindNames == <<"ValueError", "ConnectionError", "KeyError", "TimeoutError",
               "OSError", "RuntimeError">>

(* [:5] *)
TopN == 5

(* no summary has been taken since the last record_error *)
NoSummary == [total_errors |-> -1, error_rate |-> <<0, 1>>, top_errors |-> <<>>,
              window |-> 0, at |-> -1]

AggInit ==
  /\ errors = <<>>
  /\ error_counts = <<>>
  /\ atime = 0
  /\ apc = [t \in Threads |-> "idle"]
  /\ akind = [t \in Threads |-> ""]
  /\ aloaded = [t \in Threads |-> 0]
  /\ summary = NoSummary

(* no aggregator is in use *)
AggIdle == AggInit

AggOthersUnchanged == UNCHANGED <<cbVars, retryVars, batchVars, rateVars, queueVars>>

(* d.get(k, default) on a dict kept as its items in insertion order *)
DictGetNoDefault(d, k, default) ==
  IF \E n \in 1..Len(d) : d[n].key = k
    THEN (CHOOSE item \in {d[n] : n \in 1..Len(d)} : item.key = k).val
    ELSE 1
DictGet(d, k, default) ==
  IF \E n \in 1..Len(d) : d[n].key = k
    THEN (CHOOSE item \in {d[n] : n \in 1..Len(d)} : item.key = k).val
    ELSE default

(* the types recorded so far, and those a next record_error may carry *)
KindsSeen == {errors[n].type : n \in 1..Len(errors)}
NextKinds ==
  {KindNames[j] : j \in {i \in 1..Len(KindNames) : i <= Cardinality(KindsSeen) + 1}}

(* record_error, lines 126-137: the record is built and appended, and the *)
(* type's count is read                                                   *)
R_Append(t, k) ==
  /\ apc[t] = "idle"
  /\ Len(errors) < MaxRecords
  /\ errors' = Append(errors, [timestamp |-> atime, type |-> k])
  /\ akind' = [akind EXCEPT ![t] = k]
  /\ aloaded' = [aloaded EXCEPT ![t] = DictGet(error_counts, k, 0)]
  /\ apc' = [apc EXCEPT ![t] = "count"]
  /\ summary' = NoSummary
  /\ UNCHANGED <<error_counts, atime>>
  /\ AggOthersUnchanged

(* record_error, line 137: the incremented count is stored *)
R_Store(t) ==
  /\ apc[t] = "count"
  /\ error_counts' = DictSet(error_counts, akind[t], aloaded[t] + 1)
  /\ apc' = [apc EXCEPT ![t] = "idle"]
  /\ UNCHANGED <<errors, atime, akind, aloaded, summary>>
  /\ AggOthersUnchanged

(* current_time - e['timestamp'] <= time_window *)
InWindowStrict(cur, ts, w) == cur - ts < w
InWindow(cur, ts, w) == cur - ts <= w

(* recent_errors, lines 147-150 *)
RecentErrors(cur, w) ==
  SelectSeq(errors, LAMBDA e : InWindow(cur, e.timestamp, w))

(* sorted(items, key=lambda x: x[1], reverse=True): stable, so items with *)
(* equal counts keep their order                                          *)
InsertDescUnstable(sorted, item) ==
  LET before == {n \in 1..Len(sorted) : sorted[n].val > item.val}
      m == Cardinality(before)
  IN SubSeq(sorted, 1, m) \o <<item>> \o SubSeq(sorted, m + 1, Len(sorted))
InsertDesc(sorted, item) ==
  LET before == {n \in 1..Len(sorted) : sorted[n].val >= item.val}
      m == Cardinality(before)
  IN SubSeq(sorted, 1, m) \o <<item>> \o SubSeq(sorted, m + 1, Len(sorted))

RECURSIVE SortedDesc(_)
SortedDesc(items) ==
  IF items = <<>> THEN <<>>
  ELSE InsertDesc(SortedDesc(SubSeq(items, 1, Len(items) - 1)), items[Len(items)])

(* seq[:n] *)
TakeAll(seq, n) == seq
Take(seq, n) == SubSeq(seq, 1, IF Len(seq) < n THEN Len(seq) ELSE n)

(* the counts that top_errors ranks: self.error_counts.items() *)
RankedCounts(cur, w) == error_counts

(* get_error_summary, lines 146-160 *)
G_SummaryEvicting(t, w) ==
  /\ apc[t] = "idle"
  /\ errors' = RecentErrors(atime, w)
  /\ summary' =
       [total_errors |-> Len(errors'),
        error_rate |-> <<Len(errors') * 60, w>>,
        top_errors |-> Take(SortedDesc(RankedCounts(atime, w)), TopN),
        window |-> w, at |-> atime]
  /\ UNCHANGED <<error_counts, atime, apc, akind, aloaded>>
  /\ AggOthersUnchanged
G_Summary(t, w) ==
  /\ apc[t] = "idle"
  /\ summary' =
       LET recent == RecentErrors(atime, w) IN
       [total_errors |-> Len(recent),
        error_rate |-> <<Len(recent) * 60, w>>,
        top_errors |-> Take(SortedDesc(RankedCounts(atime, w)), TopN),
        window |-> w, at |-> atime]
  /\ UNCHANGED <<errors, error_counts, atime, apc, akind, aloaded>>
  /\ AggOthersUnchanged

(* time passes *)
AggTick ==
  /\ atime < MaxAggTime
  /\ atime' = atime + 1
  /\ UNCHANGED <<errors, error_counts, apc, akind, aloaded, summary>>
  /\ AggOthersUnchanged

AggNext ==
  \/ \E t \in SeqThreads : \E k \in NextKinds : R_Append(t, k)
  \/ \E t \in SeqThreads : R_Store(t)
  \/ \E t \in SeqThreads : \E w \in 1..MaxWindow : G_Summary(t, w)
  \/ AggTick

(* record_error and get_error_summary entered by several threads on one  *)
(* aggregator: the class holds no lock                                    *)
AggConcNext ==
  \/ \E t \in Threads : \E k \in NextKinds :
        Len(errors) < MaxConcRecords /\ R_Append(t, k)
  \/ \E t \in Threads : R_Store(t)
  \/ \E t \in Threads : \E w \in 1..MaxWindow : G_Summary(t, w)
  \/ AggTick

(* ====================== rate_limited_api_calls ======================== *)

(* how session.get(url) can end: a response with a status, or an          *)
(* exception                                                              *)
RequestOutcomes == {"200", "503", "ClientConnectorError"}

(* the dict limited_request returns, lines 245-255 *)
NoResponse == [url |-> NoUrl, status |-> "", error |-> "", success |-> FALSE]
Response(url, o) ==
  IF o = "ClientConnectorError"
    THEN [url |-> url, status |-> "", error |-> o, success |-> FALSE]
    ELSE [url |-> url, status |-> o, error |-> "", success |-> TRUE]

RateLocals ==
  /\ semaphore = rate_limit
  /\ lpc = [i \in 1..Len(urls) |-> "acquire"]
  /\ lresults = [i \in 1..Len(urls) |-> NoResponse]
  /\ rlpc = "gather"
  /\ api_results = <<>>

(* semaphore = asyncio.Semaphore(rate_limit); one limited_request per url *)
RateInit ==
  /\ urls \in TargetLists
  /\ rate_limit \in 1..MaxRate
  /\ RateLocals

(* rate_limited_api_calls is not running *)
RateIdle ==
  /\ urls = <<>> /\ rate_limit = 5
  /\ RateLocals

RateOthersUnchanged == UNCHANGED <<cbVars, retryVars, batchVars, aggVars, queueVars>>

(* the requests that hold a permit of the semaphore *)
InFlight == {i \in 1..Len(urls) : lpc[i] \in {"request", "release"}}

(* line 242, async with semaphore: entered once a permit is free *)
L_AcquireNoWait(i) ==
  /\ lpc[i] = "acquire"
  /\ semaphore' = semaphore - 1
  /\ lpc' = [lpc EXCEPT ![i] = "request"]
  /\ UNCHANGED <<urls, rate_limit, lresults, rlpc, api_results>>
  /\ RateOthersUnchanged
L_Acquire(i) ==
  /\ lpc[i] = "acquire"
  /\ semaphore > 0
  /\ semaphore' = semaphore - 1
  /\ lpc' = [lpc EXCEPT ![i] = "request"]
  /\ UNCHANGED <<urls, rate_limit, lresults, rlpc, api_results>>
  /\ RateOthersUnchanged

(* lines 243-255: session.get(url) answers or raises; the dict is built *)
L_Request(i, o) ==
  /\ lpc[i] = "request"
  /\ lresults' = [lresults EXCEPT ![i] = Response(urls[i], o)]
  /\ lpc' = [lpc EXCEPT ![i] = "release"]
  /\ UNCHANGED <<urls, rate_limit, semaphore, rlpc, api_results>>
  /\ RateOthersUnchanged

(* line 242, leaving async with semaphore: the permit is given back *)
L_Release(i) ==
  /\ lpc[i] = "release"
  /\ semaphore' = semaphore + 1
  /\ lpc' = [lpc EXCEPT ![i] = "done"]
  /\ UNCHANGED <<urls, rate_limit, lresults, rlpc, api_results>>
  /\ RateOthersUnchanged

(* lines 258-261: gather has every result; they are returned *)
L_Return ==
  /\ rlpc = "gather"
  /\ \A i \in 1..Len(urls) : lpc[i] = "done"
  /\ api_results' = [i \in 1..Len(urls) |-> lresults[i]]
  /\ rlpc' = "returned"
  /\ UNCHANGED <<urls, rate_limit, semaphore, lpc, lresults>>
  /\ RateOthersUnchanged

RateNext ==
  \/ \E i \in 1..Len(urls) : L_Acquire(i)
  \/ \E i \in 1..Len(urls) : \E o \in RequestOutcomes : L_Request(i, o)
  \/ \E i \in 1..Len(urls) : L_Release(i)
  \/ L_Return

(* ========================== AsyncTaskQueue ============================ *)

Workers == 1..MaxWorkers

QueueLocals ==
  /\ queue = <<>> /\ unfinished_tasks = 0
  /\ running = FALSE
  /\ wpc = [w \in Workers |-> "none"]
  /\ wtask = [w \in Workers |-> 0]
  /\ mpc = "start"
  /\ added = 0
  /\ awaited_by = <<>>

(* AsyncTaskQueue(max_workers), lines 112-116 *)
QueueInit ==
  /\ max_workers \in 1..MaxWorkers
  /\ QueueLocals

(* no AsyncTaskQueue is in use *)
QueueIdle ==
  /\ max_workers = 5
  /\ QueueLocals

QueueOthersUnchanged == UNCHANGED <<cbVars, retryVars, batchVars, aggVars, rateVars>>

(* start, lines 139-145: running is set and the workers are created *)
Q_Start ==
  /\ mpc = "start"
  /\ running' = TRUE
  /\ wpc' = [w \in Workers |-> IF w <= max_workers THEN "loop" ELSE "none"]
  /\ mpc' = "add"
  /\ UNCHANGED <<queue, unfinished_tasks, max_workers, wtask, added, awaited_by>>
  /\ QueueOthersUnchanged

(* add_task, lines 118-120: queue.put(coro) *)
Q_AddTask ==
  /\ mpc = "add"
  /\ added < MaxTasks
  /\ added' = added + 1
  /\ queue' = Append(queue, added')
  /\ unfinished_tasks' = unfinished_tasks + 1
  /\ awaited_by' = Append(awaited_by, {})
  /\ UNCHANGED <<max_workers, running, wpc, wtask, mpc>>
  /\ QueueOthersUnchanged

(* the caller has added its coroutines and calls wait_for_completion *)
Q_WaitForCompletion ==
  /\ mpc = "add"
  /\ mpc' = "join"
  /\ UNCHANGED <<queue, unfinished_tasks, max_workers, running, wpc, wtask,
                 added, awaited_by>>
  /\ QueueOthersUnchanged

(* queue.join() returns, line 156: no task of the queue is unfinished *)
Q_Joined ==
  /\ mpc = "join"
  /\ unfinished_tasks = 0
  /\ mpc' = "joined"
  /\ UNCHANGED <<queue, unfinished_tasks, max_workers, running, wpc, wtask,
                 added, awaited_by>>
  /\ QueueOthersUnchanged

(* stop, lines 147-149: running is cleared *)
Q_Stop ==
  /\ mpc = "joined"
  /\ running' = FALSE
  /\ mpc' = "stopping"
  /\ UNCHANGED <<queue, unfinished_tasks, max_workers, wpc, wtask, added, awaited_by>>
  /\ QueueOthersUnchanged

(* stop, line 152: gather returns once every worker has ended *)
Q_Stopped ==
  /\ mpc = "stopping"
  /\ \A w \in Workers : wpc[w] \in {"none", "ended"}
  /\ mpc' = "stopped"
  /\ UNCHANGED <<queue, unfinished_tasks, max_workers, running, wpc, wtask,
                 added, awaited_by>>
  /\ QueueOthersUnchanged

(* worker, lines 124-127: the loop test, then queue.get() under wait_for; *)
(* a timeout on an empty queue comes back to the loop test                *)
W_Get(w) ==
  /\ wpc[w] = "loop"
  /\ IF ~running
       THEN /\ wpc' = [wpc EXCEPT ![w] = "ended"]
            /\ UNCHANGED <<queue, wtask, awaited_by>>
       ELSE /\ queue # <<>>
            /\ wtask' = [wtask EXCEPT ![w] = Head(queue)]
            /\ queue' = Tail(queue)
            /\ awaited_by' = [awaited_by EXCEPT ![Head(queue)] = @ \cup {w}]
            /\ wpc' = [wpc EXCEPT ![w] = "await"]
  /\ UNCHANGED <<unfinished_tasks, max_workers, running, mpc, added>>
  /\ QueueOthersUnchanged

(* lines 130-132: await task finished normally; queue.task_done() *)
W_TaskDone(w) ==
  /\ wpc[w] = "await"
  /\ unfinished_tasks' = unfinished_tasks - 1
  /\ wtask' = [wtask EXCEPT ![w] = 0]
  /\ wpc' = [wpc EXCEPT ![w] = "loop"]
  /\ UNCHANGED <<queue, max_workers, running, mpc, added, awaited_by>>
  /\ QueueOthersUnchanged

(* lines 130 and 136-137: await task raised; except Exception prints the  *)
(* error and the loop goes on, task_done() not having been called         *)
W_TaskRaised(w) ==
  /\ wpc[w] = "await"
  /\ wtask' = [wtask EXCEPT ![w] = 0]
  /\ wpc' = [wpc EXCEPT ![w] = "loop"]
  /\ UNCHANGED <<queue, unfinished_tasks, max_workers, running, mpc, added, awaited_by>>
  /\ QueueOthersUnchanged

QueueNext ==
  \/ Q_Start
  \/ Q_AddTask
  \/ Q_WaitForCompletion
  \/ Q_Joined
  \/ Q_Stop
  \/ Q_Stopped
  \/ \E w \in Workers : W_Get(w)
  \/ \E w \in Workers : W_TaskDone(w)
  \/ \E w \in Workers : W_TaskRaised(w)

(* ========================== specifications ============================ *)
(* sequential use of one CircuitBreaker *)
InitCB == CBInit /\ RetryIdle /\ BatchIdle /\ AggIdle /\ RateIdle /\ QueueIdle
SpecCB == InitCB /\ [][CBNext]_vars

(* one CircuitBreaker shared by several threads *)
SpecCBConc == InitCB /\ [][CBConcNext]_vars

(* one call through a retry wrapper *)
InitRetry == RetryInit /\ CBIdle /\ BatchIdle /\ AggIdle /\ RateIdle /\ QueueIdle
SpecRetry == InitRetry /\ [][RetryNext]_vars

(* the wrapper is one sequential loop: it goes on as long as func and     *)
(* time.sleep return                                                      *)
SpecRetryFair == SpecRetry /\ WF_vars(RetryNext)

(* one call of batch_health_checks *)
InitBatch == BatchInit /\ CBIdle /\ RetryIdle /\ AggIdle /\ RateIdle /\ QueueIdle
SpecBatch == InitBatch /\ [][BatchNext]_vars

(* sequential use of one ErrorAggregator *)
InitAgg == AggInit /\ CBIdle /\ RetryIdle /\ BatchIdle /\ RateIdle /\ QueueIdle
SpecAgg == InitAgg /\ [][AggNext]_vars

(* one ErrorAggregator shared by several threads *)
SpecAggConc == InitAgg /\ [][AggConcNext]_vars

(* one call of rate_limited_api_calls; the event loop runs every task     *)
(* that can run                                                           *)
InitRate == RateInit /\ CBIdle /\ RetryIdle /\ BatchIdle /\ AggIdle /\ QueueIdle
SpecRate == InitRate /\ [][RateNext]_vars
SpecRateFair == SpecRate /\ WF_vars(RateNext)

(* one AsyncTaskQueue used as test_task_queue uses it; the event loop     *)
(* runs every task that can run, and every coroutine added finishes       *)
InitQueue == QueueInit /\ CBIdle /\ RetryIdle /\ BatchIdle /\ AggIdle /\ RateIdle
SpecQueue == InitQueue /\ [][QueueNext]_vars
SpecQueueFair == SpecQueue /\ WF_vars(QueueNext)

(* ==================== claims about CircuitBreaker ===================== *)

(* C1: on a fresh breaker with failure_threshold = n >= 1, after each of   *)
(* the first n-1 failing calls the state is CLOSED; the n-th failing call  *)
(* sets state = OPEN with last_failure_time the time of that failure.      *)
C1_OpensAtThreshold ==
  (pc[1] = "idle" /\ tally.ok = 0 /\ tally.rejected = 0) =>
     /\ failure_count = tally.fail
     /\ tally.fail < failure_threshold => state = "CLOSED"
     /\ tally.fail = failure_threshold =>
          (state = "OPEN" /\ last_failure_time = raisedAt[1])

C1_Witness ==
  /\ pc[1] = "idle" /\ tally.ok = 0 /\ tally.rejected = 0
  /\ failure_threshold > 1 /\ tally.fail = failure_threshold
  /\ state = "OPEN" /\ callStart[1] < raisedAt[1]

(* C2: a call made while OPEN with the timeout not elapsed is rejected     *)
(* with an error, func is not invoked, and state, failure_count and        *)
(* last_failure_time are unchanged.                                        *)
C2_OpenRejects ==
  [][ (ncalls' = ncalls + 1 /\ state = "OPEN"
         /\ now - last_failure_time <= timeout)
      => /\ outcome'[1].kind = "raise" /\ ~outcome'[1].invoked
         /\ pc'[1] = "idle"
         /\ invocations' = invocations
         /\ UNCHANGED <<state, failure_count, last_failure_time>> ]_vars

C2_Witness ==
  /\ state = "OPEN" /\ pc[1] = "idle"
  /\ outcome[1].kind = "raise" /\ ~outcome[1].invoked
  /\ callStart[1] - last_failure_time <= timeout
  /\ tally.rejected > 0

(* C3: OPEN is left only at the start of a call, to HALF_OPEN, when        *)
(* now - last_failure_time > timeout, and func is then invoked exactly     *)
(* once as the trial; without a call the breaker stays OPEN; a call at     *)
(* elapsed time exactly timeout is rejected.                               *)
C3_LazyHalfOpen ==
  [][ /\ (state = "OPEN" /\ state' # "OPEN") =>
            /\ ncalls' = ncalls + 1
            /\ now - last_failure_time > timeout
            /\ state' = "HALF_OPEN"
            /\ pc[1] = "idle" /\ pc'[1] = "in_func"
            /\ invocations' = invocations + 1
      /\ (state = "OPEN" /\ ncalls' = ncalls + 1
            /\ now - last_failure_time > timeout) =>
            (state' = "HALF_OPEN" /\ invocations' = invocations + 1)
      /\ (state = "OPEN" /\ ncalls' = ncalls + 1
            /\ now - last_failure_time = timeout) =>
            /\ state' = "OPEN" /\ invocations' = invocations
            /\ outcome'[1].kind = "raise" /\ ~outcome'[1].invoked
      /\ (ncalls' = ncalls) => invocations' = invocations ]_vars

C3_Witness ==
  /\ state = "HALF_OPEN" /\ pc[1] = "in_func"
  /\ callStart[1] - last_failure_time > timeout
  /\ tally.rejected > 0

(* C4: a HALF_OPEN trial that succeeds leaves CLOSED with                  *)
(* failure_count = 0; one that fails leaves OPEN with last_failure_time    *)
(* the time of that failure and failure_count >= failure_threshold.        *)
C4_TrialDecides ==
  [][ (state = "HALF_OPEN" /\ pc[1] # "idle" /\ pc'[1] = "idle") =>
        IF outcome'[1].kind = "return"
          THEN state' = "CLOSED" /\ failure_count' = 0
          ELSE /\ outcome'[1].kind = "raise" /\ outcome'[1].invoked
               /\ state' = "OPEN"
               /\ last_failure_time' = now
               /\ failure_count' >= failure_threshold ]_vars

C4_Witness ==
  /\ pc[1] = "idle" /\ outcome[1].during = "HALF_OPEN"
  /\ outcome[1].kind = "raise" /\ state = "OPEN"
  /\ last_failure_time = raisedAt[1] /\ tally.ok > 0

(* C8: a call rejected by the OPEN breaker fails with an error kind that   *)
(* no error of the wrapped operation has.                                  *)
C8_RejectionKindDistinct ==
  \A t \in Threads :
    (outcome[t].kind = "raise" /\ ~outcome[t].invoked) =>
       \A e \in OpErrors : outcome[t].err.type # e.type

(* ================= claims about the retry wrappers =================== *)

(* func's first k invocations raise an error the except clause catches,    *)
(* the later ones return                                                   *)
FailsFirst(k) ==
  \A i \in DOMAIN script :
    IF i < k THEN script[i] # NoError /\ IsInstance(script[i], exceptions)
             ELSE script[i] = NoError

Min(a, b) == IF a <= b THEN a ELSE b

(* the finished call made every allowed attempt and each one failed       *)
Exhausted(limit) ==
  /\ rpc = "done" /\ limit >= 1 /\ calls = limit
  /\ \A i \in 0..(calls - 1) : script[i] # NoError
  /\ rresult.kind = "raise"

(* C5: retry_decorator with max_attempts = n >= 1 on a func whose first k  *)
(* invocations fail retryably and whose later ones succeed invokes func    *)
(* exactly min(k+1, n) times, returns func's value when k < n and fails    *)
(* when k >= n.                                                            *)
C5_InvocationCount ==
  (wrapper = "retry_decorator" /\ rpc = "done" /\ max_attempts >= 1) =>
    \A k \in 0..MaxAttempts :
      FailsFirst(k) =>
        /\ calls = Min(k + 1, max_attempts)
        /\ k < max_attempts => rresult = Result("return", k, NoError)
        /\ k >= max_attempts => (rresult.kind = "raise" /\ rresult.err = script[calls - 1])

C5_Witness ==
  /\ wrapper = "retry_decorator" /\ rpc = "done" /\ max_attempts = 3
  /\ FailsFirst(MaxAttempts) /\ calls = 3 /\ rresult.kind = "raise"

(* C6: in retry_decorator the i-th sleep (from 0) follows failed attempt i *)
(* and lasts delay * backoff^i; nothing is slept before attempt 0 or after *)
(* the last allowed attempt, so exhausting n attempts sleeps n-1 times.    *)
C6_BackoffDelays ==
  wrapper = "retry_decorator" =>
    /\ \A i \in 1..Len(sleeps) : sleeps[i] = delay * Pow(backoff, i - 1)
    /\ Len(sleeps) = IF rpc = "sleep" THEN attempt + 1 ELSE attempt
    /\ Len(sleeps) <= calls
    /\ \A i \in 1..Len(sleeps) : script[i - 1] # NoError
    /\ max_attempts >= 1 => Len(sleeps) <= max_attempts - 1
    /\ Exhausted(max_attempts) => Len(sleeps) = max_attempts - 1

C6_Witness ==
  /\ wrapper = "retry_decorator" /\ Exhausted(max_attempts)
  /\ max_attempts = 4 /\ delay = 1 /\ backoff = 2
  /\ sleeps = <<1, 2, 4>>

(* C7: when every allowed attempt fails, the wrapper raises a distinct     *)
(* ExhaustedRetries failure that carries the attempt count and the last    *)
(* error.                                                                  *)
C7_ExhaustedRetriesKind ==
  /\ (wrapper = "retry_decorator" /\ Exhausted(max_attempts)) =>
        (rresult.err.type = "ExhaustedRetries" /\ rresult.err # script[calls - 1])
  /\ (wrapper = "retry_with_backoff" /\ Exhausted(max_retries + 1)) =>
        (rresult.err.type = "ExhaustedRetries" /\ rresult.err # script[calls - 1])

(* C9: in retry_decorator an error the exceptions tuple does not match     *)
(* ends the call where it first occurs: it is raised to the caller, func   *)
(* is not invoked again and nothing is slept after it.                     *)
C9_NonRetryablePropagates ==
  wrapper = "retry_decorator" =>
    \A j \in 0..(calls - 1) :
      (script[j] # NoError /\ ~IsInstance(script[j], exceptions)) =>
         /\ rpc = "done"
         /\ calls = j + 1
         /\ rresult = Result("raise", -1, script[j])
         /\ Len(sleeps) = j
         /\ attempt = j

C9_Witness ==
  /\ wrapper = "retry_decorator" /\ rpc = "done"
  /\ calls = 2 /\ max_attempts > 2
  /\ script[0] # NoError /\ IsInstance(script[0], exceptions)
  /\ script[1] # NoError /\ ~IsInstance(script[1], exceptions)
  /\ rresult.err = script[1]

(* =================== claims about batch_health_checks ================= *)

ResultCount == IF batch = "asyncio" THEN Len(processed_results) ELSE Len(results)

RECURSIVE FirstSeen(_, _)
FirstSeen(order, seen) ==
  IF order = <<>> THEN <<>>
  ELSE IF targets[Head(order)] \in seen THEN FirstSeen(Tail(order), seen)
  ELSE <<targets[Head(order)]>>
         \o FirstSeen(Tail(order), seen \cup {targets[Head(order)]})

EntryOf(i) ==
  IF batch = "asyncio" THEN processed_results[i]
  ELSE (CHOOSE r \in {results[n] : n \in 1..Len(results)} : r.key = targets[i]).val

(* the last yielded check of url u *)
LastYielded(u) ==
  LET at == CHOOSE n \in 1..Len(yield_order) :
              /\ targets[yield_order[n]] = u
              /\ \A m \in (n + 1)..Len(yield_order) : targets[yield_order[m]] # u
  IN yield_order[at]

C13_ReturnsAfterAllChecks ==
  bpc = "returned" =>
    /\ \A i \in 1..Len(targets) : check[i] \in CheckOutcomes
    /\ batch = "threads" => yielded = 1..Len(targets)
    /\ ResultCount > 0 \/ Len(targets) = 0

C13_Witness ==
  /\ bpc = "returned" /\ batch = "threads" /\ Len(targets) = 3
  /\ \A i \in 1..Len(targets) : check[i] \in CheckOutcomes
  /\ check[1] = "failed" /\ yield_order = <<3, 2, 1>>

(* ==================== claims about ErrorAggregator ==================== *)

(* the records of type k, and those among them no older than w at cur *)
RecordsOf(k) == {n \in 1..Len(errors) : errors[n].type = k}
RecordsInWindow(cur, w) == {n \in 1..Len(errors) : cur - errors[n].timestamp <= w}

(* what get_error_summary returned *)
Output(s) ==
  [total_errors |-> s.total_errors, error_rate |-> s.error_rate,
   top_errors |-> s.top_errors]

(* C14: total_errors is the number of stored records whose age             *)
(* now - timestamp is <= time_window, the boundary included.               *)
C14_TotalInWindow ==
  summary # NoSummary =>
    summary.total_errors = Cardinality(RecordsInWindow(summary.at, summary.window))

C14_Witness ==
  /\ summary # NoSummary /\ Len(errors) >= 3
  /\ summary.total_errors = 2
  /\ \E n \in 1..Len(errors) : summary.at - errors[n].timestamp = summary.window
  /\ \E n \in 1..Len(errors) : summary.at - errors[n].timestamp > summary.window

(* C15: each count listed in top_errors is the number of records of that   *)
(* type inside the window, and a type with no record inside the window is  *)
(* not listed.                                                             *)
C15_TopErrorsWindowed ==
  summary # NoSummary =>
    \A n \in 1..Len(summary.top_errors) :
      LET item == summary.top_errors[n] IN
        /\ item.val = Cardinality(RecordsOf(item.key)
                                    \cap RecordsInWindow(summary.at, summary.window))
        /\ item.val > 0

(* the place of type k's first record *)
FirstRecorded(k) == CHOOSE n \in RecordsOf(k) : \A m \in RecordsOf(k) : n <= m

(* C16: top_errors lists at most 5 types, in descending order of count,    *)
(* types with equal counts in the order in which they were first recorded. *)
C16_TopErrorsRanked ==
  summary # NoSummary =>
    LET top == summary.top_errors IN
      /\ Len(top) <= 5
      /\ Len(top) = Min(5, Cardinality(KindsSeen))
      /\ \A n \in 1..Len(top) :
           /\ top[n].key \in KindsSeen
           /\ top[n].val = Cardinality(RecordsOf(top[n].key))
      /\ \A n, m \in 1..Len(top) :
           n < m =>
             /\ top[n].key # top[m].key
             /\ top[n].val >= top[m].val
             /\ top[n].val = top[m].val =>
                  FirstRecorded(top[n].key) < FirstRecorded(top[m].key)
      /\ \A k \in KindsSeen :
           (\A n \in 1..Len(top) : top[n].key # k) =>
              \A n \in 1..Len(top) : top[n].val >= Cardinality(RecordsOf(k))

C16_Witness ==
  /\ summary # NoSummary
  /\ Cardinality(KindsSeen) = 6 /\ Len(summary.top_errors) = 5
  /\ summary.top_errors[5].val = summary.top_errors[1].val

(* error_counts[k] is the number of records of type k, for every k *)
CountsMatchRecords ==
  /\ \A n \in 1..Len(error_counts) :
       error_counts[n].val = Cardinality(RecordsOf(error_counts[n].key))
  /\ \A k \in KindsSeen : \E n \in 1..Len(error_counts) : error_counts[n].key = k
  /\ \A n, m \in 1..Len(error_counts) :
       error_counts[n].key = error_counts[m].key => n = m

(* C17: after any sequence of record_error and get_error_summary calls,    *)
(* error_counts[k] is the number of records of type k in errors, for every *)
(* k; errors only grows by appending.                                      *)
C17_CountsMatchRecords ==
  [][ /\ apc'[1] = "idle" => CountsMatchRecords'
      /\ \/ errors' = errors
         \/ /\ Len(errors') = Len(errors) + 1
            /\ SubSeq(errors', 1, Len(errors)) = errors ]_vars

C17_Witness ==
  /\ apc[1] = "idle" /\ summary # NoSummary
  /\ Len(errors) = 4 /\ Len(error_counts) = 2
  /\ error_counts[1].val = 1 /\ error_counts[2].val = 3

(* C18 as stated: get_error_summary changes neither errors nor             *)
(* error_counts, and two calls with the same time_window with no           *)
(* record_error between them return identical output.                      *)
C18_SummaryIdempotent ==
  [][ (summary' # NoSummary /\ summary' # summary) =>
        /\ UNCHANGED <<errors, error_counts>>
        /\ (summary # NoSummary /\ summary'.window = summary.window) =>
              Output(summary') = Output(summary) ]_vars

(* C18 as amended: get_error_summary changes neither errors nor            *)
(* error_counts; of two calls with the same time_window with no            *)
(* record_error between them, the later returns the same top_errors and    *)
(* never a larger total_errors, and the same output when no record's age   *)
(* has passed time_window between the two calls.                           *)
C18_SummaryReadOnly ==
  [][ (summary' # NoSummary /\ summary' # summary) =>
        /\ UNCHANGED <<errors, error_counts>>
        /\ (summary # NoSummary /\ summary'.window = summary.window) =>
              /\ summary'.top_errors = summary.top_errors
              /\ summary'.total_errors <= summary.total_errors
              /\ RecordsInWindow(summary'.at, summary'.window)
                   = RecordsInWindow(summary.at, summary.window)
                 => Output(summary') = Output(summary) ]_vars

C18_Witness ==
  /\ summary # NoSummary /\ apc[1] = "idle"
  /\ summary.total_errors > 0 /\ summary.total_errors < Len(errors)
  /\ summary.at = MaxAggTime

(* ============ claims about CircuitBreaker under concurrency ============ *)

(* C19: no failure is lost when several threads run call() concurrently    *)
(* with failing operations: once m failing calls have completed on a fresh *)
(* breaker (and no other call), failure_count = m, and the state is OPEN   *)
(* once m >= failure_threshold.                                            *)
C19_NoFailureLost ==
  (/\ \A t \in Threads : pc[t] = "idle"
   /\ tally.ok = 0 /\ tally.rejected = 0) =>
     /\ failure_count = tally.fail
     /\ tally.fail >= failure_threshold => state = "OPEN"

(* the callers whose func is running as a HALF_OPEN trial *)
Trials == {t \in Threads : pc[t] # "idle" /\ outcome[t].during = "HALF_OPEN"}

(* C20: at most one caller runs the wrapped operation as the HALF_OPEN     *)
(* trial before the trial's outcome has moved the breaker to CLOSED or     *)
(* back to OPEN.                                                           *)
C20_OneTrial == Cardinality(Trials) <= 1

(* ============ claims about ErrorAggregator under concurrency ============ *)

(* the sum of the values of a dict kept as its items *)
RECURSIVE SumVals(_)
SumVals(d) == IF d = <<>> THEN 0 ELSE Head(d).val + SumVals(Tail(d))

(* C21: after any interleaving of concurrent record_error calls, once all  *)
(* of them have completed, the per-kind values in error_counts sum to the  *)
(* number of records in errors (no update of a count is lost).             *)
C21_NoRecordLost ==
  (\A t \in Threads : apc[t] = "idle") => SumVals(error_counts) = Len(errors)

(* ============== further claims about CircuitBreaker ==================== *)

(* C22: a successful call while the breaker is CLOSED changes nothing:     *)
(* state stays CLOSED and failure_count and last_failure_time keep their   *)
(* values.                                                                 *)
C22_ClosedSuccessFrame ==
  [][ (tally'.ok = tally.ok + 1 /\ state = "CLOSED") =>
        /\ state' = "CLOSED"
        /\ UNCHANGED <<failure_count, last_failure_time>> ]_vars

(* failures separated by a success have accumulated to the threshold *)
C22_Witness ==
  /\ state = "OPEN" /\ failure_threshold >= 2
  /\ tally.ok >= 1 /\ tally.rejected = 0
  /\ tally.fail = failure_threshold /\ failure_count = failure_threshold

(* C23: in every state reachable by sequential calls, state = CLOSED if    *)
(* and only if failure_count < failure_threshold.                          *)
C23_ClosedIffBelowThreshold ==
  (state = "CLOSED") <=> (failure_count < failure_threshold)

(* closed again by a successful trial, after the breaker had opened *)
C23_Witness ==
  /\ state = "CLOSED" /\ failure_count = 0
  /\ tally.fail >= failure_threshold /\ tally.ok >= 1
  /\ pc[1] = "idle"

(* C24 as stated: at every point in time, state = OPEN if and only if      *)
(* failure_count >= failure_threshold and the time elapsed since           *)
(* last_failure_time is less than the open timeout.                        *)
C24_OpenIffCoolingDown ==
  (state = "OPEN") <=>
     /\ failure_count >= failure_threshold
     /\ last_failure_time # NoneTime
     /\ now - last_failure_time < timeout

(* C24 as amended: state = OPEN implies failure_count >= failure_threshold *)
(* and a recorded last_failure_time; and while failure_count >=            *)
(* failure_threshold and the time elapsed since last_failure_time is at    *)
(* most the timeout, state is OPEN. The breaker stays OPEN after the       *)
(* timeout has elapsed until the next call.                                *)
C24_OpenWhileCoolingDown ==
  /\ state = "OPEN" =>
       failure_count >= failure_threshold /\ last_failure_time # NoneTime
  /\ (/\ failure_count >= failure_threshold
      /\ last_failure_time # NoneTime
      /\ now - last_failure_time <= timeout) => state = "OPEN"

(* still OPEN after the timeout has elapsed, no call having come *)
C24_Witness ==
  /\ state = "OPEN" /\ pc[1] = "idle"
  /\ now - last_failure_time > timeout
  /\ tally.rejected >= 1

(* C29: in sequential use, after any call() has returned or raised, state  *)
(* is CLOSED or OPEN, never HALF_OPEN; and whenever state is OPEN,         *)
(* last_failure_time is set.                                               *)
C29_HalfOpenTransient ==
  /\ pc[1] = "idle" => state \in {"CLOSED", "OPEN"}
  /\ state = "OPEN" => last_failure_time # NoneTime

(* a trial call has returned and has closed the breaker *)
C29_Witness ==
  /\ pc[1] = "idle" /\ state = "CLOSED"
  /\ outcome[1].kind = "return" /\ outcome[1].during = "HALF_OPEN"

(* ================ further claims about the retry wrappers ============== *)

(* the most invocations of func the wrapper's loop allows *)
AttemptLimit ==
  IF wrapper = "retry_decorator" THEN max_attempts ELSE max_retries + 1

(* C25: every call through a retry wrapper terminates, returning or        *)
(* raising, and func has never been invoked more often than the loop       *)
(* allows (max_attempts times in retry_decorator).                         *)
C25_Terminates ==
  /\ [](calls <= IF AttemptLimit < 0 THEN 0 ELSE AttemptLimit)
  /\ <>[](rpc = "done" /\ rresult.kind \in {"return", "raise"})

(* an always-failing func has used up every attempt of retry_with_backoff *)
C25_Witness ==
  /\ wrapper = "retry_with_backoff" /\ rpc = "done"
  /\ max_retries = 2 /\ calls = 3 /\ Len(sleeps) = 2
  /\ rresult.kind = "raise"

(* C26: whenever a retry wrapper raises, the raised value is the error     *)
(* raised by the last invocation of func; raise last_exception is never    *)
(* executed with last_exception = None.                                    *)
C26_ConcreteError ==
  (rpc = "done" /\ rresult.kind = "raise") =>
     /\ calls >= 1
     /\ rresult.err = script[calls - 1]
     /\ rresult.err # RaiseNoneError

(* every invocation of func raises *)
AlwaysFails == \A i \in DOMAIN script : script[i] # NoError

(* C28: retry_with_backoff(max_retries = n, backoff_factor = f), n >= 0,   *)
(* invokes an always-failing func exactly n+1 times, sleeps f^a after      *)
(* failed attempt a (0-based, a < n), and re-raises the error of the       *)
(* (n+1)-th invocation.                                                    *)
C28_RetriesAfterFirstTry ==
  (/\ wrapper = "retry_with_backoff" /\ rpc = "done"
   /\ max_retries >= 0 /\ AlwaysFails) =>
     /\ calls = max_retries + 1
     /\ sleeps = [a \in 1..max_retries |-> Pow(backoff_factor, a - 1)]
     /\ rresult = Result("raise", -1, script[max_retries])

C28_Witness ==
  /\ wrapper = "retry_with_backoff" /\ rpc = "done" /\ AlwaysFails
  /\ max_retries = 3 /\ backoff_factor = 2
  /\ calls = 4 /\ sleeps = <<1, 2, 4>> /\ rresult.kind = "raise"

(* ================= claims about rate_limited_api_calls ================= *)

(* C27: at most rate_limit requests are in flight at once, the permits     *)
(* out and the permits left always add up to rate_limit, and the call      *)
(* ends with every url's request run, its result returned at the url's     *)
(* place, and every permit given back, whether requests succeed or fail.   *)
C27_SemaphoreBounds ==
  /\ [](/\ Cardinality({i \in 1..Len(urls) : lpc[i] \in {"request", "release"}})
             <= rate_limit
        /\ semaphore + Cardinality({i \in 1..Len(urls) : lpc[i] \in {"request", "release"}})
             = rate_limit)
  /\ <>[](/\ rlpc = "returned"
          /\ semaphore = rate_limit
          /\ Len(api_results) = Len(urls)
          /\ \A i \in 1..Len(urls) :
               /\ lpc[i] = "done"
               /\ api_results[i].url = urls[i]
               /\ api_results[i].success \/ api_results[i].error # "")

(* every permit is out, a request waits for one, and a failed request has  *)
(* given its permit back                                                   *)
C27_Witness ==
  /\ Cardinality(InFlight) = rate_limit
  /\ \E i \in 1..Len(urls) : lpc[i] = "acquire"
  /\ \E i \in 1..Len(urls) : lpc[i] = "done" /\ ~lresults[i].success

(* ===================== claims about AsyncTaskQueue ===================== *)

(* C30: with the workers started and every coroutine added finishing       *)
(* (normally or by raising), no coroutine is awaited by two workers, and   *)
(* wait_for_completion eventually returns, each coroutine having been      *)
(* awaited by exactly one worker.                                          *)
C30_QueueCompletes ==
  /\ [](\A c \in 1..added : Cardinality(awaited_by[c]) <= 1)
  /\ <>(/\ mpc \in {"joined", "stopping", "stopped"}
        /\ \A c \in 1..added : Cardinality(awaited_by[c]) = 1)

====
